---- MODULE Spec2Model ----
(***************************************************************************)
(* Model of net/sched/sch_tbs.c, the Time-Based Scheduler qdisc, in its    *)
(* time-sorted (software) queueing mode.                                   *)
(*                                                                         *)
(* The rb-tree q->head is modelled by its in-order sequence: rebalancing   *)
(* by rb_insert_color/rb_erase keeps the in-order sequence, and rb_first   *)
(* is the first element of that sequence.  Times are small integers        *)
(* (ktime_t is s64, delta is s32; no value of the model gets near either   *)
(* width).  A packet is a record                                           *)
(*    id      identity of the sk_buff (its address)                        *)
(*    tstamp  skb->tstamp                                                  *)
(*    txtime  history field: skb->tstamp as it was when tbs_enqueue was    *)
(*            called (the local txtime of is_packet_valid)                 *)
(*    sk      skb->sk: NULL or a socket record                             *)
(***************************************************************************)
EXTENDS Integers, Sequences, FiniteSets

VARIABLES
    phase,          \* "new" | "ready" | "failed" | "destroyed": life of the Qdisc
    now,            \* the value q->get_time() returns
    delta,          \* q->delta
    clockid,        \* q->clockid
    sorting,        \* q->sorting
    deadline_mode,  \* q->deadline_mode (bool, as 0/1)
    get_time,       \* q->get_time: name of the clock function, or NoClock
    last,           \* q->last
    head,           \* q->head, as the in-order sequence of the tree
    qlen,           \* sch->q.qlen
    watchdog,       \* q->watchdog: [qdisc, armed, expires]
    nextId,         \* history: identity given to the next sk_buff
    dropped,        \* history: ids of the packets dropped as expired
    freed,          \* history: ids of the packets tbs_reset freed
    rejected,       \* history: ids of the packets tbs_enqueue refused
    sent,           \* history: one record per packet dequeue returned since
                    \*          the last reset: its txtime, and q->last after it
    op,             \* history: the operation the last step performed
    arg,            \* history: the sk_buff handed to the last tbs_enqueue,
                    \*          the tc_tbs_qopt handed to tbs_init
    ret             \* history: what the last operation returned

vars == <<phase, now, delta, clockid, sorting, deadline_mode, get_time, last,
          head, qlen, watchdog, nextId, dropped, freed, rejected, sent, op,
          arg, ret>>

qvars == <<delta, clockid, sorting, deadline_mode, get_time>>

-----------------------------------------------------------------------------
(* Bounds of the model *)

MaxTime == 3

MaxDelta == 2

MaxPkts == 3

\* the calls of tbs_enqueue in a behaviour of LiveSpec
LivePkts == 2

-----------------------------------------------------------------------------
(* Program constants *)

CLOCK_REALTIME == 0

CLOCK_MONOTONIC == 1

CLOCK_BOOTTIME == 7

CLOCK_TAI == 11

MAX_CLOCKS == 16

EINVAL == 22

ENOTSUPP == 524

NET_XMIT_SUCCESS == 0

NET_XMIT_DROP == 1

NULL == [null |-> TRUE]

\* an int return value, as a record (ret also holds sk_buff records)
Code(n) == [code |-> n]

\* no time at all (an unarmed timer)
NoTime == 0 - 1

\* a NULL function pointer, and a NULL struct Qdisc pointer
NoClock == "NULL"

NoQdisc == "NULL"

-----------------------------------------------------------------------------
(* Inputs *)

Times == 0 .. MaxTime

\* clockids offered to tbs_init: below 0, one below MAX_CLOCKS that the
\* switch of tbs_init has no case for (2, CLOCK_PROCESS_CPUTIME_ID), a
\* supported one, and one not below MAX_CLOCKS
QoptClockids == {-1, 2, CLOCK_TAI, MAX_CLOCKS}

QoptDeltas == -1 .. MaxDelta

\* struct tc_tbs_qopt
Qopts == [delta : QoptDeltas, clockid : QoptClockids,
          sorting_on : {TRUE}, deadline_on : {0, 1}]

\* struct sock: txtime is sock_flag(sk, SOCK_TXTIME), deadline is
\* sk_txtime_flags & SK_TXTIME_DEADLINE_MASK
Socks == [txtime : BOOLEAN, sk_clockid : {CLOCK_REALTIME, CLOCK_TAI},
          deadline : {0, 1}]

Skbs(id) == [id : {id}, tstamp : Times, txtime : {NoTime}, sk : Socks \cup {NULL}]

-----------------------------------------------------------------------------
(* ktime helpers *)

ktime_before(a, b) == a < b

ktime_after(a, b) == a > b

ktime_sub_ns(kt, ns) == kt - ns

-----------------------------------------------------------------------------
(* validate_input_params: 0 or a negative errno *)

validate_input_params(qopt) ==
    IF qopt.clockid >= MAX_CLOCKS THEN -EINVAL
    ELSE IF qopt.clockid < 0 THEN -ENOTSUPP
    ELSE IF qopt.delta < 0 THEN -EINVAL
    ELSE 0

\* the switch of tbs_init: the clock function of a clockid, NoClock for default
clock_of(id) ==
    IF id = CLOCK_REALTIME THEN "ktime_get_real"
    ELSE IF id = CLOCK_MONOTONIC THEN "ktime_get"
    ELSE IF id = CLOCK_BOOTTIME THEN "ktime_get_boottime"
    ELSE IF id = CLOCK_TAI THEN "ktime_get_clocktai"
    ELSE NoClock

-----------------------------------------------------------------------------
(* is_packet_valid *)

\* is_packet_valid without the test against q->last
is_packet_valid_nolast(nskb) ==
    LET txtime == nskb.tstamp
        sk == nskb.sk
    IN  IF sk = NULL THEN FALSE
        ELSE IF ~sk.txtime THEN FALSE
        ELSE IF sk.sk_clockid # clockid THEN FALSE
        ELSE IF sk.deadline # deadline_mode THEN FALSE
        ELSE IF ktime_before(txtime, now) THEN FALSE
        ELSE TRUE

\* is_packet_valid refusing a txtime equal to now
is_packet_valid_strict(nskb) ==
    LET txtime == nskb.tstamp
        sk == nskb.sk
    IN  IF sk = NULL THEN FALSE
        ELSE IF ~sk.txtime THEN FALSE
        ELSE IF sk.sk_clockid # clockid THEN FALSE
        ELSE IF sk.deadline # deadline_mode THEN FALSE
        ELSE IF ~ktime_after(txtime, now) \/ ktime_before(txtime, last) THEN FALSE
        ELSE TRUE

is_packet_valid(nskb) ==
    LET txtime == nskb.tstamp
        sk == nskb.sk
    IN  IF sk = NULL THEN FALSE
        ELSE IF ~sk.txtime THEN FALSE
        ELSE IF sk.sk_clockid # clockid THEN FALSE
        ELSE IF sk.deadline # deadline_mode THEN FALSE
        ELSE IF ktime_before(txtime, now) \/ ktime_before(txtime, last) THEN FALSE
        ELSE TRUE

-----------------------------------------------------------------------------
(* The time-sorted list *)

\* rb_last taken for rb_first
tbs_peek_last(h) == IF h = <<>> THEN NULL ELSE h[Len(h)]

tbs_peek_timesortedlist(h) == IF h = <<>> THEN NULL ELSE Head(h)

\* the descent with the comparison the wrong way round
RECURSIVE rb_link_inverted(_, _)
rb_link_inverted(h, nskb) ==
    IF h = <<>> THEN <<nskb>>
    ELSE IF ktime_before(nskb.tstamp, Head(h).tstamp)
         THEN <<Head(h)>> \o rb_link_inverted(Tail(h), nskb)
         ELSE <<nskb>> \o h

\* The descent of tbs_enqueue_timesortedlist goes right only when txtime is
\* after the node's tstamp, so the new node lands before every node whose
\* tstamp is not before txtime.
RECURSIVE rb_link(_, _)
rb_link(h, nskb) ==
    IF h = <<>> THEN <<nskb>>
    ELSE IF ktime_after(nskb.tstamp, Head(h).tstamp)
         THEN <<Head(h)>> \o rb_link(Tail(h), nskb)
         ELSE <<nskb>> \o h

\* rb_erase of the node at position i
rb_erase(h, i) == [j \in 1 .. (Len(h) - 1) |-> IF j < i THEN h[j] ELSE h[j + 1]]

-----------------------------------------------------------------------------
(* The watchdog (net/sched/sch_api.c, not part of this file) *)

qdisc_watchdog_schedule_ns(wd, expires) ==
    [wd EXCEPT !.armed = TRUE, !.expires = expires]

qdisc_watchdog_cancel(wd) == [wd EXCEPT !.armed = FALSE, !.expires = NoTime]

\* reset_watchdog forgetting to subtract q->delta
reset_watchdog_nodelta(h, wd) ==
    LET skb == tbs_peek_timesortedlist(h)
    IN  IF skb = NULL THEN wd
        ELSE qdisc_watchdog_schedule_ns(wd, skb.tstamp)

\* reset_watchdog taking the expiry as relative to the clock
reset_watchdog_relative(h, wd) ==
    LET skb == tbs_peek_timesortedlist(h)
    IN  IF skb = NULL THEN wd
        ELSE qdisc_watchdog_schedule_ns(wd, now + ktime_sub_ns(skb.tstamp, delta))

\* reset_watchdog on the list h
reset_watchdog(h, wd) ==
    LET skb == tbs_peek_timesortedlist(h)
    IN  IF skb = NULL THEN wd
        ELSE qdisc_watchdog_schedule_ns(wd, ktime_sub_ns(skb.tstamp, delta))

-----------------------------------------------------------------------------
Init ==
    /\ phase = "new"
    /\ now = 0
    /\ delta = 0
    /\ clockid = 0
    /\ sorting = FALSE
    /\ deadline_mode = 0
    /\ get_time = NoClock
    /\ last = 0
    /\ head = <<>>
    /\ qlen = 0
    /\ watchdog = [qdisc |-> NoQdisc, armed |-> FALSE, expires |-> NoTime]
    /\ nextId = 1
    /\ dropped = {}
    /\ freed = {}
    /\ rejected = {}
    /\ sent = <<>>
    /\ op = "none"
    /\ arg = NULL
    /\ ret = NULL

\* the clock advances
Tick ==
    /\ now < MaxTime
    /\ now' = now + 1
    /\ op' = "tick"
    /\ arg' = NULL
    /\ ret' = NULL
    /\ UNCHANGED <<phase, qvars, last, head, qlen, watchdog, nextId, dropped,
                   freed, rejected, sent>>

\* tbs_init, from validate_input_params on
tbs_init ==
    /\ phase = "new"
    /\ \E qopt \in Qopts :
        LET err == validate_input_params(qopt)
            fn == clock_of(qopt.clockid)
        IN  /\ arg' = qopt
            /\ IF err < 0
               THEN /\ ret' = Code(err)
                    /\ phase' = "failed"
                    /\ UNCHANGED <<qvars, watchdog>>
               ELSE /\ delta' = qopt.delta
                    /\ clockid' = qopt.clockid
                    /\ sorting' = qopt.sorting_on
                    /\ deadline_mode' = qopt.deadline_on
                    /\ IF fn = NoClock
                       THEN /\ ret' = Code(-ENOTSUPP)
                            /\ phase' = "failed"
                            /\ UNCHANGED <<get_time, watchdog>>
                       ELSE /\ get_time' = fn
                            /\ watchdog' = [watchdog EXCEPT !.qdisc = "sch"]
                            /\ ret' = Code(0)
                            /\ phase' = "ready"
    /\ op' = "init"
    /\ UNCHANGED <<now, last, head, qlen, nextId, dropped, freed, rejected, sent>>

\* tbs_enqueue counting the packet before it is validated
tbs_enqueue_counted ==
    /\ phase = "ready"
    /\ nextId <= MaxPkts
    /\ \E s \in Skbs(nextId) :
        LET nskb == [s EXCEPT !.txtime = s.tstamp]
        IN  /\ arg' = nskb
            /\ qlen' = qlen + 1
            /\ IF ~is_packet_valid(nskb)
               THEN /\ ret' = Code(NET_XMIT_DROP)
                    /\ rejected' = rejected \cup {nskb.id}
                    /\ UNCHANGED <<head, watchdog>>
               ELSE /\ head' = rb_link(head, nskb)
                    /\ watchdog' = reset_watchdog(head', watchdog)
                    /\ ret' = Code(NET_XMIT_SUCCESS)
                    /\ UNCHANGED rejected
    /\ nextId' = nextId + 1
    /\ op' = "enqueue"
    /\ UNCHANGED <<phase, now, qvars, last, dropped, freed, sent>>

\* tbs_enqueue: is_packet_valid, then tbs_enqueue_timesortedlist
tbs_enqueue ==
    /\ phase = "ready"
    /\ nextId <= MaxPkts
    /\ \E s \in Skbs(nextId) :
        LET nskb == [s EXCEPT !.txtime = s.tstamp]
        IN  /\ arg' = nskb
            /\ IF ~is_packet_valid(nskb)
               THEN /\ ret' = Code(NET_XMIT_DROP)
                    /\ rejected' = rejected \cup {nskb.id}
                    /\ UNCHANGED <<head, qlen, watchdog>>
               ELSE /\ head' = rb_link(head, nskb)
                    /\ qlen' = qlen + 1
                    /\ watchdog' = reset_watchdog(head', watchdog)
                    /\ ret' = Code(NET_XMIT_SUCCESS)
                    /\ UNCHANGED rejected
    /\ nextId' = nextId + 1
    /\ op' = "enqueue"
    /\ UNCHANGED <<phase, now, qvars, last, dropped, freed, sent>>

\* position in the list of the node of skb
rb_index(h, skb) == CHOOSE i \in 1 .. Len(h) : h[i].id = skb.id

\* q->last taken from the clock instead of the skb
erase_last_now(skb, drop) == IF drop THEN last ELSE now

\* q->last written on a drop too
erase_last_always(skb, drop) == skb.tstamp

\* what timesortedlist_erase leaves in q->last
erase_last(skb, drop) == IF drop THEN last ELSE skb.tstamp

\* timesortedlist_erase
timesortedlist_erase(skb, drop) ==
    /\ head' = rb_erase(head, rb_index(head, skb))
    /\ dropped' = IF drop THEN dropped \cup {skb.id} ELSE dropped
    /\ last' = erase_last(skb, drop)
    /\ qlen' = qlen - 1

\* deadline mode stamping now + delta
deadline_stamp_delta(skb) == [skb EXCEPT !.tstamp = now + delta]

\* deadline mode: the skb as tbs_dequeue_timesortedlist returns it
deadline_stamp(skb) == [skb EXCEPT !.tstamp = now]

\* the window test with the guard applied to both sides
window_open_wide(skb) ==
    LET next == ktime_sub_ns(skb.tstamp, delta)
    IN  ktime_after(now + delta, next)

\* the window test with the lower end of the range included
window_open_closed(skb) ==
    LET next == ktime_sub_ns(skb.tstamp, delta)
    IN  ~ktime_before(now, next)

\* the window test of tbs_dequeue_timesortedlist
window_open(skb) ==
    LET next == ktime_sub_ns(skb.tstamp, delta)
    IN  ktime_after(now, next)

\* tbs_dequeue_timesortedlist returning from the drop without going through
\* out, so without reset_watchdog
tbs_dequeue_drop_returns(wd) ==
    LET skb == tbs_peek_timesortedlist(head)
    IN  IF skb = NULL
        THEN /\ ret' = NULL
             /\ watchdog' = wd
             /\ UNCHANGED <<head, last, qlen, dropped, sent>>
        ELSE IF ktime_before(skb.tstamp, now)
        THEN /\ timesortedlist_erase(skb, TRUE)
             /\ ret' = NULL
             /\ watchdog' = wd
             /\ UNCHANGED sent
        ELSE IF deadline_mode # 0
        THEN /\ timesortedlist_erase(skb, FALSE)
             /\ ret' = deadline_stamp(skb)
             /\ watchdog' = reset_watchdog(head', wd)
             /\ sent' = Append(sent, [txtime |-> skb.txtime, last |-> last'])
        ELSE IF window_open(skb)
        THEN /\ timesortedlist_erase(skb, FALSE)
             /\ ret' = skb
             /\ watchdog' = reset_watchdog(head', wd)
             /\ sent' = Append(sent, [txtime |-> skb.txtime, last |-> last'])
        ELSE /\ ret' = NULL
             /\ watchdog' = reset_watchdog(head, wd)
             /\ UNCHANGED <<head, last, qlen, dropped, sent>>

\* tbs_dequeue_timesortedlist, entered with the watchdog in state wd
tbs_dequeue_timesortedlist(wd) ==
    LET skb == tbs_peek_timesortedlist(head)
    IN  IF skb = NULL
        THEN /\ ret' = NULL
             /\ watchdog' = wd
             /\ UNCHANGED <<head, last, qlen, dropped, sent>>
        ELSE IF ktime_before(skb.tstamp, now)
        THEN /\ timesortedlist_erase(skb, TRUE)
             /\ ret' = NULL
             /\ watchdog' = reset_watchdog(head', wd)
             /\ UNCHANGED sent
        ELSE IF deadline_mode # 0
        THEN /\ timesortedlist_erase(skb, FALSE)
             /\ ret' = deadline_stamp(skb)
             /\ watchdog' = reset_watchdog(head', wd)
             /\ sent' = Append(sent, [txtime |-> skb.txtime, last |-> last'])
        ELSE IF window_open(skb)
        THEN /\ timesortedlist_erase(skb, FALSE)
             /\ ret' = skb
             /\ watchdog' = reset_watchdog(head', wd)
             /\ sent' = Append(sent, [txtime |-> skb.txtime, last |-> last'])
        ELSE /\ ret' = NULL
             /\ watchdog' = reset_watchdog(head, wd)
             /\ UNCHANGED <<head, last, qlen, dropped, sent>>

\* tbs_dequeue, called by the framework
tbs_dequeue ==
    /\ phase = "ready"
    /\ tbs_dequeue_timesortedlist(watchdog)
    /\ op' = "dequeue"
    /\ arg' = NULL
    /\ UNCHANGED <<phase, now, qvars, nextId, freed, rejected>>

\* the watchdog timer expires: it is no longer pending, and the qdisc is run
qdisc_watchdog ==
    /\ phase = "ready"
    /\ watchdog.armed
    /\ now >= watchdog.expires
    /\ tbs_dequeue_timesortedlist(qdisc_watchdog_cancel(watchdog))
    /\ op' = "watchdog"
    /\ arg' = NULL
    /\ UNCHANGED <<phase, now, qvars, nextId, freed, rejected>>

\* timesortedlist_clear with an if for the while: one node erased
timesortedlist_clear_once(h, n) ==
    IF h = <<>> THEN [head |-> h, qlen |-> n]
    ELSE [head |-> rb_erase(h, 1), qlen |-> n - 1]

\* timesortedlist_clear: [head, qlen] after the loop
RECURSIVE timesortedlist_clear(_, _)
timesortedlist_clear(h, n) ==
    IF h = <<>> THEN [head |-> h, qlen |-> n]
    ELSE timesortedlist_clear(rb_erase(h, 1), n - 1)

\* tbs_reset
tbs_reset ==
    /\ phase = "ready"
    /\ watchdog' = IF watchdog.qdisc = "sch"
                   THEN qdisc_watchdog_cancel(watchdog) ELSE watchdog
    /\ head' = timesortedlist_clear(head, qlen).head
    /\ freed' = freed \cup {head[i].id : i \in 1 .. Len(head)}
    /\ qlen' = 0
    /\ last' = 0
    /\ sent' = <<>>
    /\ op' = "reset"
    /\ arg' = NULL
    /\ ret' = NULL
    /\ UNCHANGED <<phase, now, qvars, nextId, dropped, rejected>>

\* tbs_destroy leaving the watchdog alone
tbs_destroy_nocancel ==
    /\ phase \in {"ready", "failed"}
    /\ phase' = "destroyed"
    /\ op' = "destroy"
    /\ arg' = NULL
    /\ ret' = NULL
    /\ UNCHANGED <<now, qvars, last, head, qlen, watchdog, nextId, dropped,
                   freed, rejected, sent>>

\* tbs_destroy
tbs_destroy ==
    /\ phase \in {"ready", "failed"}
    /\ watchdog' = IF watchdog.qdisc = "sch"
                   THEN qdisc_watchdog_cancel(watchdog) ELSE watchdog
    /\ phase' = "destroyed"
    /\ op' = "destroy"
    /\ arg' = NULL
    /\ ret' = NULL
    /\ UNCHANGED <<now, qvars, last, head, qlen, nextId, dropped, freed,
                   rejected, sent>>

Next ==
    \/ Tick
    \/ tbs_init
    \/ tbs_enqueue
    \/ tbs_dequeue
    \/ qdisc_watchdog
    \/ tbs_reset
    \/ tbs_destroy

Spec == Init /\ [][Next]_vars

-----------------------------------------------------------------------------
(* Properties *)

IsPoll(o) == o \in {"dequeue", "watchdog"}

Windowed == deadline_mode = 0

Deadline == deadline_mode # 0

Accepted == Code(NET_XMIT_SUCCESS)

Rejected == Code(NET_XMIT_DROP)

\* the socket of p passes the three identity tests of the qdisc
OwnerAgrees(p) ==
    /\ p.sk # NULL
    /\ p.sk.txtime
    /\ p.sk.sk_clockid = clockid
    /\ p.sk.deadline = deadline_mode

\* the smallest tstamp held in the list h (h not empty)
MinTstamp(h) ==
    CHOOSE t \in {h[i].tstamp : i \in 1 .. Len(h)} :
        \A i \in 1 .. Len(h) : t <= h[i].tstamp

\* C1: between two resets, the packets successive polls return are
\* non-decreasing in the release time they were admitted with, in both modes.
C1_ReleaseOrder ==
    \A i \in 1 .. Len(sent) : \A j \in i .. Len(sent) :
        sent[i].txtime <= sent[j].txtime

\* two packets were returned in deadline mode, the second admitted with a
\* later release time than the first
C1_Witness ==
    /\ Deadline
    /\ Len(sent) >= 2
    /\ sent[1].txtime < sent[2].txtime

\* C2: in windowed mode a poll at now < head.tstamp - delta returns no packet
\* and leaves the head in the store.
C2_NoEarlyRelease ==
    [][(IsPoll(op') /\ Windowed /\ head # <<>>
           /\ now < Head(head).tstamp - delta)
       => (ret' = NULL /\ head' = head)]_vars

\* the only packet ever admitted was polled before its window and is held
C2_Witness ==
    /\ IsPoll(op)
    /\ Windowed
    /\ nextId = 2
    /\ Len(head) = 1
    /\ delta > 0
    /\ now < Head(head).tstamp - delta
    /\ ret = NULL

\* C3: in windowed mode a poll that finds a head that has not expired, at
\* now >= head.tstamp - delta, removes the head, returns it and sets q->last
\* to the release time it was admitted with.
C3_WindowRelease ==
    [][(IsPoll(op') /\ Windowed /\ head # <<>>
           /\ ~(Head(head).tstamp < now)
           /\ now >= Head(head).tstamp - delta)
       => (/\ ret' = Head(head)
           /\ head' = Tail(head)
           /\ last' = Head(head).txtime)]_vars

\* C4: a poll that finds the head with tstamp < now removes and drops it,
\* returns no packet and leaves q->last alone; no poll returns a packet that
\* was dropped, nor one admitted with a release time before now.
C4_ExpiryDrop ==
    [][IsPoll(op')
       => (/\ (head # <<>> /\ Head(head).tstamp < now)
                => (/\ head' = Tail(head)
                    /\ Head(head).id \in dropped'
                    /\ ret' = NULL
                    /\ last' = last)
           /\ ret' # NULL
                => (/\ ret'.id \notin dropped
                    /\ ret'.id \notin dropped'
                    /\ ~(ret'.txtime < now)))]_vars

\* a deadline-mode poll returned nothing and left a head that is not expired:
\* it dropped an expired head in front of a releasable packet
C4_Witness ==
    /\ IsPoll(op)
    /\ Deadline
    /\ ret = NULL
    /\ dropped # {}
    /\ head # <<>>
    /\ Head(head).tstamp >= now
    /\ \A i \in 1 .. Len(head) : head[i].id \notin dropped

C6_DeadlineLastIsNow ==
    [][(IsPoll(op') /\ Deadline /\ ret' # NULL) => last' = now]_vars

\* C7: once a poll has released a packet and set q->last to T, every enqueue
\* before the next reset of a packet with tstamp < T is refused and the store
\* keeps its contents.
C7_AdmissionMonotonic ==
    [][(op' = "enqueue"
           /\ \E i \in 1 .. Len(sent) : arg'.tstamp < sent[i].last)
       => (ret' = Rejected /\ head' = head)]_vars

\* a packet that passes every other test was refused for being before the
\* time of an earlier release
C7_Witness ==
    /\ op = "enqueue"
    /\ ret = Rejected
    /\ OwnerAgrees(arg)
    /\ arg.tstamp >= now
    /\ sent # <<>>
    /\ arg.tstamp < sent[1].last

\* C8: enqueue accepts the packet and inserts it into the store exactly when
\* its socket has SOCK_TXTIME, its clockid and deadline flag are the qdisc's,
\* tstamp >= now and tstamp >= q->last; otherwise the store is unchanged.
C8_AdmitIff ==
    [][op' = "enqueue"
       => (/\ ret' = Accepted
                <=> (/\ OwnerAgrees(arg')
                     /\ arg'.tstamp >= now
                     /\ arg'.tstamp >= last)
           /\ ret' = Accepted
                => (/\ Len(head') = Len(head) + 1
                    /\ \E i \in 1 .. Len(head') :
                          /\ head'[i] = arg'
                          /\ head = rb_erase(head', i))
           /\ ret' # Accepted => (ret' = Rejected /\ head' = head))]_vars

\* a packet with tstamp = now = q->last, after a release, was accepted
C8_Witness ==
    /\ op = "enqueue"
    /\ ret = Accepted
    /\ sent # <<>>
    /\ now > 0
    /\ arg.tstamp = now
    /\ arg.tstamp = last
    /\ \E i \in 1 .. Len(head) : head[i] = arg

\* C9: right after an accepted enqueue, and after a poll that leaves the
\* store non-empty, the watchdog is armed for (smallest tstamp held) - delta.
C9_TimerTracksMin ==
    [][((op' = "enqueue" /\ ret' = Accepted) \/ (IsPoll(op') /\ head' # <<>>))
       => (/\ watchdog'.armed
           /\ watchdog'.expires = MinTstamp(head') - delta)]_vars

\* an accepted packet became the new minimum and the watchdog moved to it
C9_Witness ==
    /\ op = "enqueue"
    /\ ret = Accepted
    /\ delta > 0
    /\ Len(head) >= 2
    /\ Head(head) = arg
    /\ head[1].tstamp < head[2].tstamp
    /\ watchdog.armed
    /\ watchdog.expires = arg.tstamp - delta

\* C10: in every state with an empty store no wake is outstanding: the
\* watchdog is not armed for a time the clock has yet to reach.
C10_NoWakeWhenEmpty ==
    head = <<>> => ~(watchdog.armed /\ watchdog.expires > now)

\* the ids of the packets held in the list h
Ids(h) == {h[i].id : i \in 1 .. Len(h)}

\* the watchdog as the poll of this step found it: the expired timer that
\* runs the qdisc is no longer pending
EntryWatchdog(o) ==
    IF o = "watchdog" THEN qdisc_watchdog_cancel(watchdog) ELSE watchdog

\* a packet with tstamp t from a socket that agrees with the qdisc
Agreeing(t) ==
    [id |-> nextId, tstamp |-> t, txtime |-> t,
     sk |-> [txtime |-> TRUE, sk_clockid |-> clockid, deadline |-> deadline_mode]]

\* the clockids the switch of tbs_init has a case for
SupportedClocks == {CLOCK_REALTIME, CLOCK_MONOTONIC, CLOCK_BOOTTIME, CLOCK_TAI}

\* C11: packets admitted with equal release times are returned in the order
\* they were admitted: a poll never returns a packet while one admitted
\* earlier with the same release time is still held.
C11_StableTies ==
    [][(IsPoll(op') /\ ret' # NULL)
       => \A i \in 1 .. Len(head') :
             head'[i].txtime = ret'.txtime => head'[i].id > ret'.id]_vars

\* C12: right after tbs_reset the store is empty, the queue length is 0, no
\* wake is outstanding and q->last is 0, so every packet of an agreeing socket
\* with tstamp >= now is valid again.
C12_ResetClears ==
    op = "reset"
    => (/\ head = <<>>
        /\ qlen = 0
        /\ ~watchdog.armed
        /\ last = 0
        /\ \A t \in Times : t >= now => is_packet_valid(Agreeing(t)))

\* a reset freed the second packet, still queued, after the first one had
\* been released
C12_Witness ==
    /\ op = "reset"
    /\ nextId = 3
    /\ freed = {2}
    /\ rejected = {}
    /\ dropped = {}
    /\ now > 0

\* C13: tbs_destroy leaves the store, the queue length and q->last as they
\* were, and no wake is outstanding after it.
C13_DestroyOnlyCancels ==
    [][op' = "destroy"
       => (/\ head' = head
           /\ qlen' = qlen
           /\ last' = last
           /\ UNCHANGED qvars
           /\ watchdog'.qdisc = watchdog.qdisc
           /\ ~watchdog'.armed)]_vars

\* a qdisc was destroyed with a packet still queued after a release
C13_Witness ==
    /\ op = "destroy"
    /\ phase = "destroyed"
    /\ head # <<>>
    /\ qlen = Len(head)
    /\ sent # <<>>
    /\ last > 0
    /\ ~watchdog.armed

\* C14: tbs_init fails when the clockid is not one of the four supported
\* clocks or delta is negative, and a failed tbs_init has written none of
\* the fields of the qdisc.
C14_InitAllOrNothing ==
    [][op' = "init"
       => (/\ (arg'.clockid \notin SupportedClocks \/ arg'.delta < 0)
                => ret'.code < 0
           /\ ret'.code < 0 => UNCHANGED <<qvars, watchdog>>)]_vars

\* C15: in windowed mode a poll that finds a head that has not expired and
\* whose window has yet to open (now < tstamp - delta) returns no packet and
\* leaves the store, q->last and the timer (armed or not, and its wake time)
\* as it found them.
C15_WindowedHold ==
    [][(IsPoll(op') /\ Windowed /\ head # <<>>
           /\ ~(Head(head).tstamp < now)
           /\ now < Head(head).tstamp - delta)
       => (/\ ret' = NULL
           /\ head' = head
           /\ qlen' = qlen
           /\ last' = last
           /\ watchdog' = EntryWatchdog(op'))]_vars

\* a poll later than the enqueue held the only packet ever admitted, the
\* watchdog still armed for its window
C15_Witness ==
    /\ op = "dequeue"
    /\ Windowed
    /\ nextId = 2
    /\ Len(head) = 1
    /\ delta > 0
    /\ now > 0
    /\ now < Head(head).tstamp - delta
    /\ ret = NULL
    /\ watchdog.armed
    /\ watchdog.expires = Head(head).tstamp - delta

\* C16: q->last never decreases except by tbs_reset, which sets it to 0, and
\* it changes only in a poll that returns a packet.
C16_LastMonotonic ==
    [][/\ op' # "reset" => last' >= last
       /\ op' = "reset" => last' = 0
       /\ last' # last => (op' = "reset" \/ (IsPoll(op') /\ ret' # NULL))]_vars

\* q->last went up twice
C16_Witness ==
    /\ IsPoll(op)
    /\ ret # NULL
    /\ Len(sent) >= 2
    /\ 0 < sent[1].last
    /\ sent[1].last < sent[2].last
    /\ last = sent[2].last

\* C17: a refused enqueue leaves the store, the queue length, q->last and
\* the timer as they were, and no poll ever returns a refused packet.
C17_RejectChangesNothing ==
    [][/\ (op' = "enqueue" /\ ret' = Rejected)
            => (/\ head' = head
                /\ qlen' = qlen
                /\ last' = last
                /\ watchdog' = watchdog
                /\ arg'.id \in rejected')
       /\ (IsPoll(op') /\ ret' # NULL) => ret'.id \notin rejected]_vars

\* a packet was refused while another was queued and the watchdog armed
C17_Witness ==
    /\ op = "enqueue"
    /\ ret = Rejected
    /\ arg.id \in rejected
    /\ head # <<>>
    /\ qlen = Len(head)
    /\ watchdog.armed
    /\ last > 0

\* C18: every packet held in the store has tstamp >= q->last.
C18_StoreNotBeforeLast ==
    \A i \in 1 .. Len(head) : head[i].tstamp >= last

\* a release moved q->last up to the tstamp of a packet still held
C18_Witness ==
    /\ IsPoll(op)
    /\ ret # NULL
    /\ head # <<>>
    /\ last > 0
    /\ Head(head).tstamp = last

LiveNext ==
    \/ Tick
    \/ tbs_init
    \/ (nextId <= LivePkts /\ tbs_enqueue)
    \/ tbs_dequeue
    \/ qdisc_watchdog
    \/ tbs_reset
    \/ tbs_destroy

\* The clock keeps advancing (as far as the model lets it) and a wake that
\* is due is eventually delivered; nothing obliges the framework to call
\* tbs_enqueue, tbs_dequeue, tbs_reset or tbs_destroy.
LiveSpec ==
    /\ Init
    /\ [][LiveNext]_vars
    /\ WF_vars(Tick)
    /\ WF_vars(qdisc_watchdog)

\* packet id is held with a tstamp the clock of the model can pass
Queued(id) ==
    \E i \in 1 .. Len(head) : head[i].id = id /\ head[i].tstamp < MaxTime

\* C19: with the clock advancing and every due wake running the poll, every
\* packet held in the store eventually leaves it (returned or dropped as
\* expired), as long as the qdisc is not destroyed.
C19_EveryPacketLeaves ==
    \A id \in 1 .. LivePkts :
        Queued(id) ~> (id \notin Ids(head) \/ phase = "destroyed")

\* of two packets admitted, one was dropped as expired and the other was
\* then returned by the poll the watchdog ran
C19_Witness ==
    /\ op = "watchdog"
    /\ Windowed
    /\ ret # NULL
    /\ nextId = 3
    /\ rejected = {}
    /\ freed = {}
    /\ Cardinality(dropped) = 1
    /\ head = <<>>

====
